---- MODULE Spec2Model ----
(***************************************************************************)
(* Model of src/meal_planner.py (ChefMate): the Streamlit script run       *)
(* create_meal_planner_with_categories, the Spoonacular pipeline           *)
(* get_meal_ideas / get_recipe_details, the credential loader              *)
(* load_api_keys and the session chat memory add_to_memory /               *)
(* display_memory.                                                         *)
(*                                                                         *)
(* One script run is a sequence of steps driven by pc; st.session_state    *)
(* survives from one run to the next, everything else is local to a run.   *)
(* Python strings are sequences of one-character strings, so that lower(), *)
(* str() and the substring operator `in` are computed, not assumed.        *)
(***************************************************************************)
EXTENDS Integers, Sequences, FiniteSets, TLC

VARIABLES
    session_state,  \* st.session_state: [present |-> "history" in it, history |-> the list]
    clock,          \* number of add_to_memory calls so far; read as datetime.now()
    pc,             \* position of the current script run
    secrets,        \* st.secrets as read by this run: [spoonacular, gemini]
    ingredients,    \* the ingredients text input of this run
    search,         \* what the recipe service answers to this run's search
    spoonacular_recipes, \* the value get_meal_ideas returned in this run
    bot_response,   \* bot_response of the meal branch / chat branch
    errorShown,     \* st.error was called in this run
    requests,       \* HTTP / LLM requests sent in this run
    context,        \* turns visited by the chat-context comprehension of this run
    shown,          \* turns visited by display_memory in this run
    rpolicy,        \* random pick: the dietary policy
    rattempts,      \* random pick: requests made to the source
    rlast,          \* random pick: the recipe the source returned last
    rpc             \* random pick: position

vars == <<session_state, clock, pc, secrets, ingredients, search,
          spoonacular_recipes, bot_response, errorShown, requests, context,
          shown, rpolicy, rattempts, rlast, rpc>>

shellVars == <<session_state, clock, pc, secrets, ingredients, search,
               spoonacular_recipes, bot_response, errorShown, requests,
               context, shown>>

randomVars == <<rpolicy, rattempts, rlast, rpc>>

(***************************************************************************)
(* Bounds of the model and constants of the program.                       *)
(***************************************************************************)
\* `if len(st.session_state["history"]) > 10`
Capacity == 10

\* add_to_memory calls explored in one session
MaxTurns == 12

\* search results per response explored (the request asks for up to 10)
MaxResults == 2

\* requests of the random-pick loop explored
AttemptCap == 5

\* the maxAttempts of the random-pick contract
MaxAttempts == 3

(***************************************************************************)
(* Python strings.                                                         *)
(***************************************************************************)
s_empty == << >>
s_Ham   == <<"H", "a", "m">>
s_ham   == <<"h", "a", "m">>
s_HAM   == <<"H", "A", "M">>
s_egg   == <<"e", "g", "g">>
s_name  == <<"n", "a", "m", "e">>

\* str.lower() on the characters in use
LowerChar(c) ==
    CASE c = "H" -> "h"
      [] c = "A" -> "a"
      [] c = "M" -> "m"
      [] OTHER   -> c

Lower(s) == [i \in 1..Len(s) |-> LowerChar(s[i])]

\* Python's `a in b` on strings
IsSubstring(a, b) ==
    \E i \in 0..(Len(b) - Len(a)) : SubSeq(b, i + 1, i + Len(a)) = a

\* repr of one ingredient dict, {'name': '<n>'}
ReprDict(n) ==
    <<"{", "'", "n", "a", "m", "e", "'", ":", " ", "'">> \o n \o <<"'", "}">>

RECURSIVE JoinRepr(_)
JoinRepr(names) ==
    IF names = << >> THEN << >>
    ELSE IF Len(names) = 1 THEN ReprDict(names[1])
    ELSE ReprDict(names[1]) \o <<",", " ">> \o JoinRepr(Tail(names))

\* str(details.get("extendedIngredients", ""))
StrExtendedIngredients(details) ==
    IF details.has THEN <<"[">> \o JoinRepr(details.ingr) \o <<"]">>
    ELSE s_empty

(***************************************************************************)
(* The recipe service.  A response to GET /recipes/{id}/information is     *)
(* [kind, has, ingr]: kind "raise" is a transport failure, a non-success   *)
(* status or a body that is not JSON; "falsy" is a JSON body Python finds  *)
(* false ({}, [], null); "nondict" is any other JSON body that is not an   *)
(* object; "dict" is a JSON object, with has = it carries                  *)
(* extendedIngredients, and ingr = the names of that list.                 *)
(***************************************************************************)
R_raise     == [kind |-> "raise",   has |-> FALSE, ingr |-> << >>]
R_falsy     == [kind |-> "falsy",   has |-> FALSE, ingr |-> << >>]
R_nondict   == [kind |-> "nondict", has |-> FALSE, ingr |-> << >>]
R_noIngr    == [kind |-> "dict",    has |-> FALSE, ingr |-> << >>]
R_emptyIngr == [kind |-> "dict",    has |-> TRUE,  ingr |-> << >>]
R_Ham       == [kind |-> "dict",    has |-> TRUE,  ingr |-> <<s_Ham>>]
R_eggHam    == [kind |-> "dict",    has |-> TRUE,  ingr |-> <<s_egg, s_Ham>>]

DetailResponses ==
    {R_raise, R_falsy, R_nondict, R_noIngr, R_emptyIngr, R_Ham, R_eggHam}

\* the texts typed into the ingredients field
Queries == {s_empty, s_HAM, s_egg, s_name}

\* A response to GET /recipes/complexSearch: "raise" as above, "nondict" a
\* JSON body that is not an object, "dict" an object whose "results" are
\* the given summaries (none when the key is missing).  The summary at
\* position i has id i and carries the answer the service gives for it.
SearchResponses ==
    {[kind |-> k, results |-> << >>] : k \in {"raise", "nondict"}}
    \cup
    UNION {{[kind |-> "dict",
             results |-> [i \in 1..n |-> [id |-> i, resp |-> f[i]]]] :
               f \in [1..n -> DetailResponses]} : n \in 0..MaxResults}

NoSearch == [kind |-> "none", results |-> << >>]

\* get_recipe_details: the JSON value, or None on any exception
get_recipe_details(recipe) ==
    IF recipe.resp.kind = "raise"
    THEN [id |-> recipe.id, kind |-> "None", has |-> FALSE, ingr |-> << >>]
    ELSE [id |-> recipe.id, kind |-> recipe.resp.kind,
          has |-> recipe.resp.has, ingr |-> recipe.resp.ingr]

\* bool(details)
Truthy(details) == details.kind \in {"nondict", "dict"}

\* `details.get(...)` raises AttributeError on a value that is not a dict;
\* it is evaluated only when details is truthy
GetRaises(details) == Truthy(details) /\ details.kind # "dict"

\* seeded fault: the ingredient test is dropped, `if details:`
MatchesIngredients_TruthyOnly(details, ingr) ==
    Truthy(details)

\* `details and ingredients.lower() in str(details.get("extendedIngredients", "")).lower()`
MatchesIngredients(details, ingr) ==
    /\ Truthy(details)
    /\ IsSubstring(Lower(ingr), Lower(StrExtendedIngredients(details)))

NoResult == [error |-> FALSE, recipes |-> << >>, fetched |-> 0, called |-> FALSE]

\* seeded fault: detailed_recipes.insert(0, details) in place of append
RECURSIVE DetailLoop_Prepend(_, _, _, _)
DetailLoop_Prepend(recipes, i, ingr, acc) ==
    IF i > Len(recipes)
    THEN [error |-> FALSE, recipes |-> acc, fetched |-> Len(recipes), called |-> TRUE]
    ELSE LET details == get_recipe_details(recipes[i]) IN
         IF GetRaises(details)
         THEN [error |-> TRUE, recipes |-> << >>, fetched |-> i, called |-> TRUE]
         ELSE DetailLoop_Prepend(recipes, i + 1, ingr,
                                 IF MatchesIngredients(details, ingr)
                                 THEN <<details>> \o acc ELSE acc)

\* the `for recipe in recipes` loop of get_meal_ideas from position i on,
\* with detailed_recipes = acc; an exception leaves through `except`
RECURSIVE DetailLoop(_, _, _, _)
DetailLoop(recipes, i, ingr, acc) ==
    IF i > Len(recipes)
    THEN [error |-> FALSE, recipes |-> acc, fetched |-> Len(recipes), called |-> TRUE]
    ELSE LET details == get_recipe_details(recipes[i]) IN
         IF GetRaises(details)
         THEN [error |-> TRUE, recipes |-> << >>, fetched |-> i, called |-> TRUE]
         ELSE DetailLoop(recipes, i + 1, ingr,
                         IF MatchesIngredients(details, ingr)
                         THEN Append(acc, details) ELSE acc)

\* get_meal_ideas: [error |-> the {"error": ...} dict was returned,
\* recipes |-> the returned list, fetched |-> detail requests sent]
get_meal_ideas(ingr, response) ==
    IF response.kind # "dict"
    THEN [error |-> TRUE, recipes |-> << >>, fetched |-> 0, called |-> TRUE]
    ELSE DetailLoop(response.results, 1, ingr, << >>)

(***************************************************************************)
(* Credentials.                                                            *)
(***************************************************************************)
SecretStates == {"missing", "empty", "set"}

\* seeded fault: `if not spoonacular_key and not gemini_key`
load_api_keys_And(sec) ==
    LET spoonacular_key == IF sec.spoonacular = "set" THEN "set" ELSE "none"
        gemini_key == IF sec.spoonacular = "missing" THEN "none"
                      ELSE IF sec.gemini = "set" THEN "set" ELSE "none"
    IN  IF spoonacular_key = "none" /\ gemini_key = "none"
        THEN "raise" ELSE "keys"

\* load_api_keys: the first missing secret raises inside the try, leaving
\* the keys read so far; the result is "raise" (ValueError) or "keys"
load_api_keys(sec) ==
    LET spoonacular_key == IF sec.spoonacular = "set" THEN "set" ELSE "none"
        gemini_key == IF sec.spoonacular = "missing" THEN "none"
                      ELSE IF sec.gemini = "set" THEN "set" ELSE "none"
    IN  IF spoonacular_key = "none" \/ gemini_key = "none"
        THEN "raise" ELSE "keys"

(***************************************************************************)
(* Chat memory.                                                            *)
(***************************************************************************)
Turn(now, user_input, response) ==
    [timestamp |-> now, user |-> user_input, bot |-> response]

\* seeded fault: the length test is off by one, `> 11`
add_to_memory_LateEvict(ss, turn) ==
    LET created  == IF ss.present THEN ss.history ELSE << >>
        appended == Append(created, turn)
    IN  [present |-> TRUE,
         history |-> IF Len(appended) > Capacity + 1 THEN Tail(appended)
                     ELSE appended]

\* seeded fault: pop() in place of pop(0), the newest turn is evicted
add_to_memory_PopNewest(ss, turn) ==
    LET created  == IF ss.present THEN ss.history ELSE << >>
        appended == Append(created, turn)
    IN  [present |-> TRUE,
         history |-> IF Len(appended) > Capacity
                     THEN SubSeq(appended, 1, Len(appended) - 1)
                     ELSE appended]

\* add_to_memory on st.session_state
add_to_memory(ss, turn) ==
    LET created  == IF ss.present THEN ss.history ELSE << >>
        appended == Append(created, turn)
    IN  [present |-> TRUE,
         history |-> IF Len(appended) > Capacity THEN Tail(appended)
                     ELSE appended]

\* seeded fault: the loop runs over the list itself, reversed() forgotten
display_memory_Chronological(ss) ==
    IF ss.present THEN ss.history ELSE << >>

\* `for chat in reversed(st.session_state["history"])`: the turns visited
display_memory(ss) ==
    IF ss.present
    THEN [i \in 1..Len(ss.history) |-> ss.history[Len(ss.history) + 1 - i]]
    ELSE << >>

\* the comprehension over st.session_state.get("history", []): the
\* (user, bot) pairs rendered, in the order visited
chat_context(ss) ==
    LET h == IF ss.present THEN ss.history ELSE << >>
    IN  [i \in 1..Len(h) |-> <<h[i].user, h[i].bot>>]

(***************************************************************************)
(* The script run, create_meal_planner_with_categories.                    *)
(***************************************************************************)
NoSecrets == [spoonacular |-> "unread", gemini |-> "unread"]

Init ==
    /\ session_state = [present |-> FALSE, history |-> << >>]
    /\ clock = 0
    /\ pc = "start"
    /\ secrets = NoSecrets
    /\ ingredients = s_empty
    /\ search = NoSearch
    /\ spoonacular_recipes = NoResult
    /\ bot_response = "none"
    /\ errorShown = FALSE
    /\ requests = 0
    /\ context = << >>
    /\ shown = << >>
    /\ rpolicy = [forbidden |-> {}, required |-> {}]
    /\ rattempts = 0
    /\ rlast = R_falsy
    /\ rpc = "idle"

\* A rerun of the script: the session state is kept, the locals are fresh.
\* A run makes at most two add_to_memory calls.
RunStart ==
    /\ pc \in {"start", "done", "halted", "crashed"}
    /\ clock + 2 <= MaxTurns
    /\ \E sp \in SecretStates, gm \in SecretStates :
           secrets' = [spoonacular |-> sp, gemini |-> gm]
    /\ pc' = "load_keys"
    /\ ingredients' = s_empty
    /\ search' = NoSearch
    /\ spoonacular_recipes' = NoResult
    /\ bot_response' = "none"
    /\ errorShown' = FALSE
    /\ requests' = 0
    /\ context' = << >>
    /\ shown' = << >>
    /\ UNCHANGED <<session_state, clock, randomVars>>

\* `try: load_api_keys() ... except: st.error(...); return`, keys missing
LoadKeysError ==
    /\ pc = "load_keys"
    /\ load_api_keys(secrets) = "raise"
    /\ errorShown' = TRUE
    /\ pc' = "halted"
    /\ UNCHANGED <<session_state, clock, secrets, ingredients, search,
                   spoonacular_recipes, bot_response, requests, context,
                   shown, randomVars>>

\* the same try block, genai.configure / the client constructor raising
LoadKeysClientError ==
    /\ pc = "load_keys"
    /\ load_api_keys(secrets) = "keys"
    /\ errorShown' = TRUE
    /\ pc' = "halted"
    /\ UNCHANGED <<session_state, clock, secrets, ingredients, search,
                   spoonacular_recipes, bot_response, requests, context,
                   shown, randomVars>>

LoadKeysOk ==
    /\ pc = "load_keys"
    /\ load_api_keys(secrets) = "keys"
    /\ pc' = "form"
    /\ UNCHANGED <<session_state, clock, secrets, ingredients, search,
                   spoonacular_recipes, bot_response, errorShown, requests,
                   context, shown, randomVars>>

\* `if st.button(...)` is false
SkipButton ==
    /\ pc = "form"
    /\ pc' = "chat"
    /\ UNCHANGED <<session_state, clock, secrets, ingredients, search,
                   spoonacular_recipes, bot_response, errorShown, requests,
                   context, shown, randomVars>>

\* the button is pressed: spoonacular_recipes = get_meal_ideas(...); the
\* search request is sent, then one detail request per summary visited
GetMealIdeas ==
    /\ pc = "form"
    /\ \E q \in Queries, r \in SearchResponses :
           LET out == get_meal_ideas(q, r) IN
           /\ ingredients' = q
           /\ search' = r
           /\ spoonacular_recipes' = out
           /\ requests' = requests + 1 + out.fetched
    /\ pc' = "meal_done"
    /\ UNCHANGED <<session_state, clock, secrets, bot_response, errorShown,
                   context, shown, randomVars>>

\* the three display branches, then add_to_memory
ShowMealIdeas ==
    /\ pc = "meal_done"
    /\ bot_response' = IF spoonacular_recipes.error THEN "sorry"
                       ELSE IF spoonacular_recipes.recipes = << >> THEN "not_found"
                       ELSE "ideas"
    /\ errorShown' = (errorShown \/ spoonacular_recipes.error)
    /\ session_state' = add_to_memory(session_state,
                                      Turn(clock + 1, clock + 1, clock + 1))
    /\ clock' = clock + 1
    /\ pc' = "chat"
    /\ UNCHANGED <<secrets, ingredients, search, spoonacular_recipes,
                   requests, context, shown, randomVars>>

\* `if user_input:` is false
SkipChat ==
    /\ pc = "chat"
    /\ pc' = "display"
    /\ UNCHANGED <<session_state, clock, secrets, ingredients, search,
                   spoonacular_recipes, bot_response, errorShown, requests,
                   context, shown, randomVars>>

\* the chat box holds text: the context is built from the history
BuildContext ==
    /\ pc = "chat"
    /\ context' = chat_context(session_state)
    /\ pc' = "invoke"
    /\ UNCHANGED <<session_state, clock, secrets, ingredients, search,
                   spoonacular_recipes, bot_response, errorShown, requests,
                   shown, randomVars>>

\* llm.invoke returns: the reply is shown and remembered
InvokeReply ==
    /\ pc = "invoke"
    /\ requests' = requests + 1
    /\ bot_response' = "reply"
    /\ session_state' = add_to_memory(session_state,
                                      Turn(clock + 1, clock + 1, clock + 1))
    /\ clock' = clock + 1
    /\ pc' = "display"
    /\ UNCHANGED <<secrets, ingredients, search, spoonacular_recipes,
                   errorShown, context, shown, randomVars>>

\* llm.invoke raises: nothing encloses the call, the run ends there
InvokeRaise ==
    /\ pc = "invoke"
    /\ requests' = requests + 1
    /\ pc' = "crashed"
    /\ UNCHANGED <<session_state, clock, secrets, ingredients, search,
                   spoonacular_recipes, bot_response, errorShown, context,
                   shown, randomVars>>

DisplayMemory ==
    /\ pc = "display"
    /\ shown' = display_memory(session_state)
    /\ pc' = "done"
    /\ UNCHANGED <<session_state, clock, secrets, ingredients, search,
                   spoonacular_recipes, bot_response, errorShown, requests,
                   context, randomVars>>

Next ==
    \/ RunStart
    \/ LoadKeysError
    \/ LoadKeysClientError
    \/ LoadKeysOk
    \/ SkipButton
    \/ GetMealIdeas
    \/ ShowMealIdeas
    \/ SkipChat
    \/ BuildContext
    \/ InvokeReply
    \/ InvokeRaise
    \/ DisplayMemory

Spec == Init /\ [][Next]_vars

(***************************************************************************)
(* Random pick.  The operation is not part of src/meal_planner.py; it is   *)
(* modelled from the specification's account of it: sections 4.1 and 9     *)
(* describe the repository's loop as an unbounded `while True` that asks   *)
(* the source for one random recipe and checks compliance until a          *)
(* compliant recipe is found.                                              *)
(***************************************************************************)
\* a forbidden term occurs in some lower-cased ingredient name
ContainsForbidden(recipe, forbidden) ==
    \E t \in forbidden : \E i \in 1..Len(recipe.ingr) :
        IsSubstring(t, Lower(recipe.ingr[i]))

\* isCompliant of section 4.1
isCompliant(recipe, policy) ==
    /\ recipe.kind = "dict"
    /\ recipe.ingr # << >>
    /\ ~ContainsForbidden(recipe, policy.forbidden)
    /\ \/ policy.required = {}
       \/ \E t \in policy.required : \E i \in 1..Len(recipe.ingr) :
              IsSubstring(t, Lower(recipe.ingr[i]))

Policies ==
    {[forbidden |-> f, required |-> r] :
        f \in SUBSET {s_ham, s_egg}, r \in {{}, {s_egg}}}

\* the recipes fetchRandom can answer with
RandomRecipes == {R_emptyIngr, R_Ham, R_eggHam}

InitRandom ==
    /\ session_state = [present |-> FALSE, history |-> << >>]
    /\ clock = 0
    /\ pc = "start"
    /\ secrets = NoSecrets
    /\ ingredients = s_empty
    /\ search = NoSearch
    /\ spoonacular_recipes = NoResult
    /\ bot_response = "none"
    /\ errorShown = FALSE
    /\ requests = 0
    /\ context = << >>
    /\ shown = << >>
    /\ rpolicy \in Policies
    /\ rattempts = 0
    /\ rlast = R_falsy
    /\ rpc = "loop"

\* one iteration asks the source for a random recipe
RandomRequest ==
    /\ rpc = "loop"
    /\ rattempts < AttemptCap
    /\ rlast' \in RandomRecipes
    /\ rattempts' = rattempts + 1
    /\ rpc' = "check"
    /\ UNCHANGED <<rpolicy, shellVars>>

\* the recipe is compliant: it is returned
RandomFound ==
    /\ rpc = "check"
    /\ isCompliant(rlast, rpolicy)
    /\ rpc' = "found"
    /\ UNCHANGED <<rpolicy, rattempts, rlast, shellVars>>

\* the recipe is not compliant: the loop goes round again
RandomRetry ==
    /\ rpc = "check"
    /\ ~isCompliant(rlast, rpolicy)
    /\ rpc' = "loop"
    /\ UNCHANGED <<rpolicy, rattempts, rlast, shellVars>>

NextRandom ==
    \/ RandomRequest
    \/ RandomFound
    \/ RandomRetry

SpecRandom == InitRandom /\ [][NextRandom]_vars

(***************************************************************************)
(* Operators the properties are stated with.                               *)
(***************************************************************************)
History == session_state.history

Min(a, b) == IF a <= b THEN a ELSE b

RECURSIVE RevSeq(_)
RevSeq(s) == IF s = << >> THEN << >> ELSE Append(RevSeq(Tail(s)), Head(s))

\* q occurs in t at some offset, character by character
Occurs(q, t) ==
    \E k \in 0..Len(t) :
        /\ k + Len(q) <= Len(t)
        /\ \A j \in 1..Len(q) : t[k + j] = q[j]

\* the text the ingredient check of a recipe object is made against
IngredientText(r) == Lower(StrExtendedIngredients(r))

\* the search result at position i passes the acceptance check
Passes(i) ==
    /\ search.results[i].resp.kind = "dict"
    /\ Occurs(Lower(ingredients), IngredientText(search.results[i].resp))

Returned == spoonacular_recipes.recipes

Called == spoonacular_recipes.called

\* "either credential is absent": not configured, or configured empty
KeysAbsent(sec) == sec.spoonacular # "set" \/ sec.gemini # "set"

(***************************************************************************)
(* C1.  The history never holds more than 10 turns: not after an           *)
(* add_to_memory call, and not in what display_memory or the chat context  *)
(* read.                                                                   *)
(***************************************************************************)
C1_HistoryBounded ==
    /\ Len(History) <= Capacity
    /\ Len(shown) <= Capacity
    /\ Len(context) <= Capacity

\* the display read of a history that has overflowed, after adds from both
\* the button and the chat box in one run
C1_Witness ==
    /\ pc = "done"
    /\ clock > Capacity
    /\ Len(shown) = Capacity
    /\ Len(context) = Capacity
    /\ Called

(***************************************************************************)
(* C2.  After n add_to_memory calls the history is exactly the last        *)
(* min(n, 10) turns appended, in the order appended.                       *)
(***************************************************************************)
C2_LastTurnsInOrder ==
    /\ session_state.present = (clock > 0)
    /\ Len(History) = Min(clock, Capacity)
    /\ \A i \in 1..Len(History) :
           LET k == clock - Len(History) + i IN History[i] = Turn(k, k, k)

\* twelve appends: m3 .. m12 remain
C2_Witness ==
    /\ clock = 12
    /\ Len(History) = 10
    /\ History[1].user = 3
    /\ History[10].user = 12

(***************************************************************************)
(* C3.  For every reachable history the display read visits the turns      *)
(* most-recent-first and the context read visits the same turns            *)
(* oldest-first, so the display order reversed is the context order; what  *)
(* a run displayed, reversed, is the stored history, which stays           *)
(* chronological.                                                          *)
(***************************************************************************)
C3_ReadOrders ==
    LET d == display_memory(session_state)
        c == chat_context(session_state)
        pairs == [i \in 1..Len(d) |-> <<d[i].user, d[i].bot>>]
    IN  /\ \A i, j \in 1..Len(d) : i < j => d[i].timestamp > d[j].timestamp
        /\ \A i, j \in 1..Len(c) : i < j => c[i][1] < c[j][1]
        /\ RevSeq(pairs) = c
        /\ \A i, j \in 1..Len(History) :
               i < j => History[i].timestamp < History[j].timestamp
        /\ pc = "done" => RevSeq(shown) = History
        /\ pc = "invoke" =>
               /\ Len(context) = Len(History)
               /\ \A i \in 1..Len(History) :
                      context[i] = <<History[i].user, History[i].bot>>

\* a run that read the context of several turns and then displayed a full
\* history
C3_Witness ==
    /\ pc = "done"
    /\ Len(context) >= 2
    /\ Len(shown) = Capacity
    /\ shown[1].timestamp = clock

C5_NoDataRejected ==
    \A k \in 1..Len(Returned) :
        /\ Returned[k].kind = "dict"
        /\ Returned[k].has
        /\ Returned[k].ingr # << >>

(***************************************************************************)
(* C6.  The list get_meal_ideas returns is the sub-sequence of the search  *)
(* results that pass the acceptance check: each returned recipe is the     *)
(* details of a passing result, none is returned twice, and the order of   *)
(* the search results is kept.                                             *)
(***************************************************************************)
C6_SubSequence ==
    (Called /\ ~spoonacular_recipes.error) =>
        LET passing == {i \in 1..Len(search.results) : Passes(i)} IN
        /\ Len(Returned) = Cardinality(passing)
        /\ \A k \in 1..Len(Returned) :
               /\ Returned[k].id \in passing
               /\ Returned[k] = get_recipe_details(search.results[Returned[k].id])
        /\ \A k, l \in 1..Len(Returned) :
               k < l => Returned[k].id < Returned[l].id

\* two passing results, returned in search order
C6_Witness ==
    /\ Called
    /\ ~spoonacular_recipes.error
    /\ ingredients = s_HAM
    /\ Len(Returned) = 2
    /\ Returned[1].id = 1
    /\ Returned[2].id = 2

(***************************************************************************)
(* C7.  As claimed: the random pick stops after at most MaxAttempts        *)
(* requests; when every answer was non-compliant it has reported NotFound  *)
(* by then.                                                                *)
(***************************************************************************)
C7_BoundedAttempts ==
    /\ rattempts <= MaxAttempts
    /\ (rattempts = MaxAttempts /\ rpc \notin {"check", "found"}) =>
           rpc = "notfound"

(***************************************************************************)
(* C8.  As claimed: when the search succeeds, a failed or malformed        *)
(* detail response never aborts the batch: a list is returned, the details *)
(* of every search result were requested, and the failed record is not in  *)
(* the list.                                                               *)
(***************************************************************************)
C8_SkipAndContinue ==
    (Called /\ search.kind = "dict") =>
        /\ ~spoonacular_recipes.error
        /\ spoonacular_recipes.fetched = Len(search.results)
        /\ \A i \in 1..Len(search.results) :
               search.results[i].resp.kind # "dict" =>
                   \A k \in 1..Len(Returned) : Returned[k].id # i

(***************************************************************************)
(* C9.  As claimed: with valid credentials no failure of the search call   *)
(* or of the chat call ends a run before display_memory; a failed search   *)
(* gives the caller an error result without recipes, and the run shows the *)
(* error.                                                                  *)
(***************************************************************************)
C9_NoCrash ==
    /\ pc # "crashed"
    /\ (Called /\ search.kind # "dict") =>
           /\ spoonacular_recipes.error
           /\ Returned = << >>
    /\ (pc \in {"chat", "invoke", "display", "done"}
            /\ Called /\ search.kind # "dict") => errorShown

(***************************************************************************)
(* C10.  In a run whose credentials are absent (either one missing or      *)
(* empty) initialization halts with an error shown: the run sends no       *)
(* request and no step of it changes the conversation history.             *)
(***************************************************************************)
C10_HaltsOnMissingKeys ==
    [][KeysAbsent(secrets') =>
          /\ pc' \in {"load_keys", "halted"}
          /\ pc' = "halted" => errorShown'
          /\ requests' = 0
          /\ session_state' = session_state]_vars

\* a later run of a session with history, halted for the chat key alone
C10_Witness ==
    /\ pc = "halted"
    /\ secrets.spoonacular = "set"
    /\ secrets.gemini = "missing"
    /\ errorShown
    /\ Len(History) > 0

====
